---- MODULE Spec2Model ----
(***************************************************************************)
(* The HTTP layer of selenium-wire's bundled mitmproxy                     *)
(* (seleniumwire/thirdparty/mitmproxy/server/protocol/http.py):            *)
(* HttpLayer.__call__ and HttpLayer._process_flow as a state machine, with *)
(* validate_request_form and HttpLayer.matches_no_proxy as operators.      *)
(*                                                                         *)
(* Python strings that the code takes apart (split, endswith, int) are     *)
(* sequences of one-character strings: "internal:8080" is                  *)
(* <<"i","n","t","e","r","n","a","l",":","8","0","8","0">>.                *)
(***************************************************************************)
EXTENDS Integers, Sequences, FiniteSets, TLC

VARIABLES
    mode,         \* HttpLayer.mode
    config,       \* self.config.options: no_proxy, upstream_auth, relax,
                  \* websocket, socks ("socks" in options.mode)
    initial,      \* __initial_server_address / __initial_server_tls
    server_conn,  \* self.server_conn: address, connected, tls
    pc,           \* position in __call__ / _process_flow
    exc,          \* the exception propagating inside _process_flow, or "none"
    f,            \* the HTTPFlow of the current exchange
    request,      \* f.request
    response,     \* f.response
    hooks,        \* the events given to channel.ask in this exchange, in order
    sent,         \* the responses given to send_response* in this exchange, in order
    upstream,     \* what was done to the server connection in this exchange
    layers,       \* the layers called in this exchange (handoffs), in order
    ret,          \* what _process_flow gave back for the exchange
    exchanges,    \* flows created by __call__ so far
    connect_request, \* HttpLayer.connect_request
    vstate,       \* validate_request_form applied to drawn inputs
    nstate,       \* matches_no_proxy applied to drawn inputs
    tunnel        \* an UpstreamConnectLayer and the calls made on it

mainvars == <<mode, config, initial, server_conn, pc, exc, f, request, response,
              hooks, sent, upstream, layers, ret, exchanges, connect_request>>
vars == <<mainvars, vstate, nstate, tunnel>>

-----------------------------------------------------------------------------
(* Bounds *)

\* flows one __call__ creates before the model stops following it
MaxExchanges == 2
\* entries of the no_proxy list drawn for matches_no_proxy
MaxEntries == 2
\* calls made on an UpstreamConnectLayer
MaxTunnelOps == 4

-----------------------------------------------------------------------------
(* Strings *)

S_example_com == <<"e","x","a","m","p","l","e",".","c","o","m">>
S_api_example_com == <<"a","p","i",".">> \o S_example_com
S_example_org == <<"e","x","a","m","p","l","e",".","o","r","g">>
S_com == <<"c","o","m">>
S_internal == <<"i","n","t","e","r","n","a","l">>
S_internal_8080 == S_internal \o <<":","8","0","8","0">>
S_internal_9090 == S_internal \o <<":","9","0","9","0">>

\* str.split(sep): the pieces of s between the occurrences of sep
RECURSIVE SplitFrom(_, _, _)
SplitFrom(s, sep, cur) ==
    IF s = <<>> THEN <<cur>>
    ELSE IF Head(s) = sep THEN <<cur>> \o SplitFrom(Tail(s), sep, <<>>)
    ELSE SplitFrom(Tail(s), sep, Append(cur, Head(s)))

Split(s, sep) == SplitFrom(s, sep, <<>>)

\* str.endswith(suffix)
EndsWith(s, suffix) ==
    /\ Len(suffix) <= Len(s)
    /\ SubSeq(s, Len(s) - Len(suffix) + 1, Len(s)) = suffix

DigitValue(c) ==
    CASE c = "0" -> 0 [] c = "1" -> 1 [] c = "2" -> 2 [] c = "3" -> 3
      [] c = "4" -> 4 [] c = "5" -> 5 [] c = "6" -> 6 [] c = "7" -> 7
      [] c = "8" -> 8 [] c = "9" -> 9

\* int(s) of a decimal string
RECURSIVE ParseInt(_)
ParseInt(s) ==
    IF s = <<>> THEN 0
    ELSE 10 * ParseInt(SubSeq(s, 1, Len(s) - 1)) + DigitValue(s[Len(s)])

-----------------------------------------------------------------------------
(* Mode and request form *)

HTTPMode == {"regular", "transparent", "upstream"}
Forms == {"relative", "absolute", "authority"}
Schemes == {"http", "https", "ftp", ""}

MODE_REQUEST_FORMS ==
    [m \in HTTPMode |->
        CASE m = "regular" -> {"authority", "absolute"}
          [] m = "transparent" -> {"relative"}
          [] m = "upstream" -> {"authority", "absolute"}]

\* an is_ok that takes 200 alone
is_ok_only_200(status) == status = 200

is_ok(status) == 200 <= status /\ status < 300

\* a validate_request_form that has lost the HTTP/2 exception
validate_request_form_noh2(m, req) ==
    IF req.first_line_format = "absolute" /\ req.scheme \notin {"http", "https"}
    THEN "HttpException"
    ELSE IF req.first_line_format \notin MODE_REQUEST_FORMS[m]
         THEN "HttpException"
         ELSE "ok"

\* "ok" when validate_request_form returns, "HttpException" when it raises
validate_request_form(m, req) ==
    IF req.first_line_format = "absolute" /\ req.scheme \notin {"http", "https"}
    THEN "HttpException"
    ELSE IF req.first_line_format \notin MODE_REQUEST_FORMS[m]
         THEN IF req.is_http2 /\ m = "transparent"
                 /\ req.first_line_format = "absolute"
              THEN "ok"
              ELSE "HttpException"
         ELSE "ok"

-----------------------------------------------------------------------------
(* matches_no_proxy *)

\* a loop that answers from the last entry it looked at and never breaks
RECURSIVE matches_no_proxy_nobreak(_, _, _, _)
matches_no_proxy_nobreak(no_proxy_list, i, no_proxy, req) ==
    IF i > Len(no_proxy_list)
    THEN [no_proxy |-> no_proxy, scanned |-> Len(no_proxy_list)]
    ELSE LET parts == Split(no_proxy_list[i], ":")
             host == Head(parts)
             port == Tail(parts)
             np == IF EndsWith(req.host, host)
                   THEN IF port # <<>> THEN ParseInt(port[1]) = req.port ELSE TRUE
                   ELSE FALSE
         IN matches_no_proxy_nobreak(no_proxy_list, i + 1, np, req)

\* the for loop of matches_no_proxy from entry i on, no_proxy being the flag so far;
\* scanned is the number of entries the loop looked at
RECURSIVE matches_no_proxy_from(_, _, _, _)
matches_no_proxy_from(no_proxy_list, i, no_proxy, req) ==
    IF i > Len(no_proxy_list)
    THEN [no_proxy |-> no_proxy, scanned |-> Len(no_proxy_list)]
    ELSE LET parts == Split(no_proxy_list[i], ":")
             host == Head(parts)
             port == Tail(parts)
             np == IF EndsWith(req.host, host)
                   THEN IF port # <<>> THEN ParseInt(port[1]) = req.port ELSE TRUE
                   ELSE no_proxy
         IN IF np
            THEN [no_proxy |-> TRUE, scanned |-> i]
            ELSE matches_no_proxy_from(no_proxy_list, i + 1, np, req)

matches_no_proxy(no_proxy_list, req) ==
    matches_no_proxy_from(no_proxy_list, 1, FALSE, req)

-----------------------------------------------------------------------------
(* Exceptions: the classes of mitmproxy.exceptions the handlers tell apart *)

\* NetlibException and its subclasses (TcpException, HttpException)
IsNetlibException(e) == e \in {"TcpException", "HttpException"}
\* HttpException and its subclasses
IsHttpException(e) == e = "HttpException"
\* ProtocolException and its subclasses
IsProtocolException(e) ==
    e \in {"ProtocolException", "Http2ProtocolException", "HttpProtocolException"}

\* what writing to the client connection fails with
DeliveryErrors == {"TcpException", "H2Error", "Http2ProtocolException"}
Delivery == {"none"} \cup DeliveryErrors
\* what talking to the server connection fails with
UpstreamErrors ==
    {"TcpException", "HttpException", "ProtocolException", "Http2ProtocolException"}
\* what reading the rest of a response fails with, one class of each kind the
\* except clause of line 497 names
ResponseReadErrors == {"TcpException", "ProtocolException"}
\* what reading from the client connection fails with
ClientReadErrors == {"HttpException", "TcpException"}
\* what a layer that was handed the connection fails with
LayerErrors == {"ProtocolException", "TcpException"}

-----------------------------------------------------------------------------
(* Values *)

\* status codes the upstream proxy answers a CONNECT with
ConnectStatuses == {200, 204, 404, 407}
\* status codes a server answers a request with
Statuses == {101, 200, 404}
\* status codes of a response a hook puts on the flow
HookStatuses == {200, 404}

\* (host, port) of the requests drawn
ReqAddrs == {<<S_internal, 8080>>, <<S_example_org, 80>>}
\* the destination a transparent-mode connection was redirected from
OrigDst == <<S_example_com, 443>>
\* the address a request hook redirects a request to
HookTarget == <<S_example_org, 80>>
\* the configured upstream proxy
ProxyAddr == <<S_com, 3128>>
\* options.upstream_auth: unset, or "u:p"
UpstreamAuths == {<<>>, <<"u", ":", "p">>}
\* options.no_proxy
NoProxyLists == {<<>>, <<S_example_com, S_internal_8080>>}
\* options.relax_http_form_validation and options.websocket
Options ==
    {[relax |-> FALSE, websocket |-> TRUE],
     [relax |-> TRUE, websocket |-> TRUE],
     [relax |-> FALSE, websocket |-> FALSE]}

NoRequest ==
    [first_line_format |-> "none", scheme |-> "", host |-> <<>>, port |-> 0,
     is_http2 |-> FALSE, stream |-> FALSE, websocket |-> FALSE,
     authority |-> FALSE, proxy_auth |-> FALSE, expect |-> FALSE]
\* by_hook: the response was put on the flow by a hook, not read from a server
NoResponse ==
    [status_code |-> 0, stream |-> FALSE, websocket |-> FALSE, by_hook |-> FALSE]
\* establishes: calls of establish_server_connection; body_reads: calls of
\* read_response_body
NoUpstream ==
    [attempts |-> 0, failures |-> <<>>, disconnects |-> 0, reconnects |-> 0,
     validations |-> <<>>, establishes |-> 0, body_reads |-> 0]
\* failed: the call that raised last in the exchange and the class it raised;
\* close: what check_close_connection answered; at_request_hook: host, port and
\* scheme of the request when the request hook was asked
NewFlow ==
    [live |-> TRUE, has_request |-> FALSE, error |-> FALSE, websocket |-> FALSE,
     received |-> "none", failed |-> <<>>, close |-> "unasked",
     at_request_hook |-> <<>>]

\* the flow once the call `site` has raised e
Failed(fl, site, e) == [fl EXCEPT !.failed = <<site, e>>]

\* `if f.response` / `if not f.response`
HasResponse == response.status_code # 0

\* one response given to the transmission layer: through send_response
\* (lines 50-55: headers, body, trailers), send_error_response, or the streaming
\* branch of lines 461-470 (headers, then the body chunks)
Sent(code, via, ok) ==
    [code |-> code, via |-> via, ok |-> ok,
     calls |-> IF via = "send_response_headers"
               THEN <<"send_response_headers", "send_response_body">>
               ELSE <<"send_response_headers", "send_response_body",
                      "send_response_trailers">>]

-----------------------------------------------------------------------------
(* Server connection (base.Layer / ServerConnectionMixin) *)

\* set_server(address): drop the connection, bind the new address
set_server(conn, address) ==
    [conn EXCEPT !.address = address, !.connected = FALSE]

\* connect(): c is "ok", or the connection attempt fails
connect(conn, c) ==
    IF c = "ok"
    THEN [conn |-> [conn EXCEPT !.connected = TRUE], raised |-> "none"]
    ELSE [conn |-> conn, raised |-> "ProtocolException"]

\* establish_server_connection(host, port, scheme) in mode m
establish_server_connection(m, conn, host, port, scheme, c) ==
    LET tls == (scheme = "https")
        address == <<host, port>>
    IN IF m \in {"regular", "transparent"}
       THEN LET bound == IF address # conn.address \/ tls # conn.tls
                         THEN [set_server(conn, address) EXCEPT !.tls = tls]
                         ELSE conn
            IN IF ~bound.connected
               THEN connect(bound, c)
               ELSE [conn |-> bound, raised |-> "none"]
       ELSE LET r == IF ~conn.connected
                     THEN connect(conn, c)
                     ELSE [conn |-> conn, raised |-> "none"]
            IN IF r.raised # "none" THEN r
               ELSE IF tls THEN [conn |-> r.conn, raised |-> "HttpProtocolException"]
               ELSE r

-----------------------------------------------------------------------------
(* send_error_response *)

\* a send_error_response whose except clause names NetlibException alone
send_error_response_netlib(s, code, d) ==
    [sent |-> Append(s, Sent(code, "send_error_response", d = "none")),
     raised |-> IF d = "none" \/ IsNetlibException(d) THEN "none" ELSE d]

\* send_error_response(code, ...) when delivery meets d ("none": delivered):
\* the responses sent so far with this one added, and what it raises to its caller
send_error_response(s, code, d) ==
    [sent |-> Append(s, Sent(code, "send_error_response", d = "none")),
     raised |-> IF d = "none"
                   \/ IsNetlibException(d)
                   \/ d = "H2Error"
                   \/ d = "Http2ProtocolException"
                THEN "none" ELSE d]

-----------------------------------------------------------------------------
(* __call__ and the except clauses of _process_flow *)

\* a loop test `if result is False: return`, which None would pass
call_continues_unless_false(r) == r # "False"

\* `if not self._process_flow(flow): return`: the loop goes on iff the result is truthy
call_continues(r) == r = "True"

\* _process_flow returns r to __call__
Return(r) ==
    /\ ret' = r
    /\ exc' = "none"
    /\ pc' = IF call_continues(r) THEN "loop" ELSE "done"

\* e leaves _process_flow and __call__
Raised(e) ==
    /\ ret' = "raised"
    /\ exc' = e
    /\ pc' = "raised"

\* an except clause that leaves the malformed request on the flow
RequestExcept_keeps_request(e, s, h, fl, rq) ==
    IF IsHttpException(e)
    THEN \E d \in Delivery :
           LET r == send_error_response(s, 400, d)
           IN /\ sent' = r.sent
              /\ request' = rq
              /\ IF r.raised # "none"
                 THEN Raised(r.raised) /\ hooks' = h /\ f' = fl
                 ELSE /\ f' = [fl EXCEPT !.error = TRUE]
                      /\ hooks' = Append(h, "error")
                      /\ Return("False")
    ELSE Raised(e) /\ sent' = s /\ hooks' = h /\ f' = fl /\ request' = rq

\* e is raised inside the first try (lines 264-324), the responses sent, the hooks
\* asked, the flow and the request being s, h, fl and rq: lines 325-338 catch an
\* HttpException, anything else leaves _process_flow; no finally clause here
RequestExcept(e, s, h, fl, rq) ==
    IF IsHttpException(e)
    THEN \E d \in Delivery :
           LET r == send_error_response(s, 400, d)
           IN /\ sent' = r.sent
              /\ IF r.raised # "none"
                 THEN Raised(r.raised) /\ hooks' = h /\ f' = fl /\ request' = rq
                 ELSE /\ request' = NoRequest
                      /\ f' = [fl EXCEPT !.has_request = FALSE, !.error = TRUE]
                      /\ hooks' = Append(h, "error")
                      /\ Return("False")
    ELSE Raised(e) /\ sent' = s /\ hooks' = h /\ f' = fl /\ request' = rq

\* an except clause with the test on f.response inverted
ForwardExcept_inverted(e, s, h, fl) ==
    IF HasResponse
    THEN /\ sent' = Append(s, Sent(502, "send_error_response", TRUE))
         /\ f' = [fl EXCEPT !.error = TRUE, !.live = FALSE]
         /\ hooks' = Append(h, "error")
         /\ Return("False")
    ELSE /\ Raised("ProtocolException")
         /\ f' = [fl EXCEPT !.live = FALSE]
         /\ sent' = s
         /\ hooks' = h

\* e is raised inside the second try (lines 364-495), the responses sent, the hooks
\* asked and the flow being s, h and fl: the except and finally clauses of
\* lines 497-509
ForwardExcept(e, s, h, fl) ==
    IF IsProtocolException(e) \/ IsNetlibException(e)
    THEN IF ~HasResponse
         THEN \E d \in Delivery :
                LET r == send_error_response(s, 502, d)
                IN /\ sent' = r.sent
                   /\ IF r.raised # "none"
                      THEN /\ Raised(r.raised)
                           /\ f' = [fl EXCEPT !.live = FALSE]
                           /\ hooks' = h
                      ELSE /\ f' = [fl EXCEPT !.error = TRUE, !.live = FALSE]
                           /\ hooks' = Append(h, "error")
                           /\ Return("False")
         ELSE /\ Raised("ProtocolException")
              /\ f' = [fl EXCEPT !.live = FALSE]
              /\ sent' = s
              /\ hooks' = h
    ELSE /\ Raised(e)
         /\ f' = [fl EXCEPT !.live = FALSE]
         /\ sent' = s
         /\ hooks' = h

Pure == vstate = "idle" /\ nstate = "idle" /\ tunnel = "idle"

Init ==
    /\ mode \in HTTPMode
    /\ \E o \in Options :
         \/ config \in [no_proxy : IF mode = "upstream" THEN NoProxyLists
                                   ELSE {<<>>},
                        upstream_auth : IF mode = "upstream" THEN UpstreamAuths
                                        ELSE {<<>>},
                        relax : {o.relax},
                        websocket : {o.websocket},
                        socks : {FALSE}]
         \/ /\ mode = "transparent"
            /\ ~o.relax
            /\ o.websocket
            /\ config \in [no_proxy : NoProxyLists \ {<<>>},
                           upstream_auth : {<<>>},
                           relax : {o.relax},
                           websocket : {o.websocket},
                           socks : {TRUE}]
    /\ initial = [address |-> <<>>, tls |-> FALSE]
    /\ server_conn \in
         [address : CASE mode = "transparent" -> {OrigDst}
                      [] mode = "upstream" -> {ProxyAddr}
                      [] mode = "regular" -> {<<>>},
          connected : IF mode = "transparent" THEN BOOLEAN ELSE {FALSE},
          tls : IF mode = "transparent" THEN BOOLEAN ELSE {FALSE}]
    /\ pc = "start"
    /\ exc = "none"
    /\ f = [NewFlow EXCEPT !.live = FALSE]
    /\ request = NoRequest
    /\ response = NoResponse
    /\ hooks = <<>>
    /\ sent = <<>>
    /\ upstream = NoUpstream
    /\ layers = <<>>
    /\ ret = "pending"
    /\ exchanges = 0
    /\ connect_request = FALSE
    /\ Pure

\* __call__ up to the loop: transparent mode captures the destination
Call ==
    /\ pc = "start"
    /\ initial' = IF mode = "transparent"
                  THEN [address |-> server_conn.address, tls |-> server_conn.tls]
                  ELSE initial
    /\ pc' = "loop"
    /\ UNCHANGED <<mode, config, server_conn, exc, f, request, response, hooks,
                   sent, upstream, layers, ret, exchanges, connect_request,
                   vstate, nstate, tunnel>>

\* lines 200-206: the loop creates a flow and gives it to _process_flow
Exchange ==
    /\ pc = "loop"
    /\ exchanges < MaxExchanges
    /\ exchanges' = exchanges + 1
    /\ response' = NoResponse
    /\ upstream' = NoUpstream
    /\ layers' = <<>>

\* lines 266-270: read_request_headers raises HttpReadDisconnect: return False
ReadRequestDisconnect ==
    /\ Exchange
    /\ f' = NewFlow
    /\ request' = NoRequest
    /\ hooks' = <<>>
    /\ sent' = <<>>
    /\ Return("False")
    /\ UNCHANGED <<mode, config, initial, server_conn, connect_request,
                   vstate, nstate, tunnel>>

\* line 266: read_request_headers raises something else
ReadRequestHeadersFails ==
    /\ Exchange
    /\ \E e \in ClientReadErrors :
          RequestExcept(e, <<>>, <<>>, Failed(NewFlow, "read_request_headers", e),
                        NoRequest)
    /\ UNCHANGED <<mode, config, initial, server_conn, connect_request,
                   vstate, nstate, tunnel>>

\* the requests read_request_headers produces. HTTP/1 carries a scheme only in
\* absolute form, HTTP/2 always; a WebSocket opening handshake is an
\* HTTP/1 request that is not a CONNECT; so is a request that carries
\* Expect: 100-continue
Requests ==
    {r \in [first_line_format : Forms, scheme : Schemes, addr : ReqAddrs,
            is_http2 : BOOLEAN, websocket : BOOLEAN, expect : BOOLEAN] :
        /\ r.is_http2 => r.scheme # "" /\ r.first_line_format # "authority"
        /\ (~r.is_http2 /\ r.first_line_format # "absolute") => r.scheme = ""
        /\ (~r.is_http2 /\ r.first_line_format = "absolute") => r.scheme # ""
        /\ r.websocket => ~r.is_http2 /\ r.first_line_format # "authority"
        /\ r.expect => /\ ~r.is_http2 /\ ~r.websocket
                       /\ r.first_line_format # "authority"}

\* a test that bypasses the upstream proxy in upstream mode alone
bypasses_upstream_only(m, cfg, req) ==
    m = "upstream" /\ matches_no_proxy(cfg.no_proxy, req).no_proxy

\* lines 274-275: the test that makes a request bypass the upstream proxy
bypasses(m, cfg, req) ==
    (m = "upstream" \/ cfg.socks) /\ matches_no_proxy(cfg.no_proxy, req).no_proxy

\* lines 266-280: read_request_headers returns a request; a request that matches
\* no_proxy, in upstream mode or with a socks mode, rebinds the server and makes
\* the mode regular
ReadRequestHeaders ==
    /\ Exchange
    /\ \E r \in Requests :
        LET req == [first_line_format |-> r.first_line_format, scheme |-> r.scheme,
                    host |-> r.addr[1], port |-> r.addr[2],
                    is_http2 |-> r.is_http2, stream |-> FALSE,
                    websocket |-> r.websocket, authority |-> TRUE,
                    proxy_auth |-> FALSE, expect |-> r.expect]
            bypass == bypasses(mode, config, req)
        IN /\ request' = req
           /\ f' = [NewFlow EXCEPT !.has_request = TRUE,
                                   !.received = r.first_line_format]
           /\ mode' = IF bypass THEN "regular" ELSE mode
           /\ server_conn' = IF bypass
                             THEN set_server(server_conn, <<req.host, req.port>>)
                             ELSE server_conn
           /\ pc' = IF r.first_line_format = "authority"
                    THEN "http_connect" ELSE "validate"
    /\ hooks' = <<>>
    /\ sent' = <<>>
    /\ exc' = "none"
    /\ ret' = "pending"
    /\ UNCHANGED <<config, initial, connect_request, vstate, nstate, tunnel>>

-----------------------------------------------------------------------------
(* The CONNECT branch: lines 280-298 *)

\* a dispatch that sends every mode but regular to the chained tunnel
connect_dispatch_no_else(m) ==
    IF m = "regular" THEN "regular_connect" ELSE "upstream_connect"

\* lines 290-298: where a CONNECT request goes once http_connect has been asked
connect_dispatch(m) ==
    CASE m = "regular" -> "regular_connect"
      [] m = "upstream" -> "upstream_connect"
      [] OTHER -> "unexpected_connect"

\* apply_proxy_auth: Proxy-Authorization is set when a credential is configured
apply_proxy_auth(req) ==
    IF config.upstream_auth # <<>> THEN [req EXCEPT !.proxy_auth = TRUE] ELSE req

\* lines 283-286: reading the CONNECT body or trailers fails
HttpConnectBodyFails ==
    /\ pc = "http_connect"
    /\ \E e \in ClientReadErrors,
          site \in {"read_request_body", "read_request_trailers"} :
          RequestExcept(e, sent, hooks, Failed(f, site, e), request)
    /\ UNCHANGED <<mode, config, initial, server_conn, response, upstream, layers,
                   exchanges, connect_request, vstate, nstate, tunnel>>

\* lines 283-298: the body is read, http_connect is asked (the hook may put a
\* response on the flow), and the mode picks the handler
HttpConnect ==
    /\ pc = "http_connect"
    /\ hooks' = Append(hooks, "http_connect")
    /\ \E s \in {0} \cup HookStatuses :
          response' = [NoResponse EXCEPT !.status_code = s, !.by_hook = s # 0]
    /\ pc' = connect_dispatch(mode)
    /\ UNCHANGED <<mode, config, initial, server_conn, exc, f, request, sent,
                   upstream, layers, ret, exchanges, connect_request,
                   vstate, nstate, tunnel>>

\* lines 295-298: CONNECT in a mode that is neither regular nor upstream
UnexpectedConnect ==
    /\ pc = "unexpected_connect"
    /\ \E d \in Delivery :
        LET r == send_error_response(sent, 400, d)
        IN IF r.raised # "none"
           THEN RequestExcept(r.raised, r.sent, hooks,
                              Failed(f, "send_error_response", r.raised), request)
           ELSE sent' = r.sent /\ Return("False") /\ UNCHANGED <<f, request, hooks>>
    /\ UNCHANGED <<mode, config, initial, server_conn, response, upstream, layers,
                   exchanges, connect_request, vstate, nstate, tunnel>>

\* lines 225-233: the except clause of handle_regular_connect, s being the
\* responses sent so far and fl the flow
RegularConnectExcept(s, fl) ==
    \E d \in Delivery :
        LET r == send_error_response(s, 502, d)
        IN IF r.raised # "none"
           THEN RequestExcept(r.raised, r.sent, hooks,
                              Failed(fl, "send_error_response", r.raised), request)
           ELSE /\ sent' = r.sent
                /\ f' = [fl EXCEPT !.error = TRUE]
                /\ hooks' = Append(hooks, "error")
                /\ request' = request
                /\ Return("False")

\* handle_regular_connect up to the handoff: lines 210-224
RegularConnect ==
    /\ pc = "regular_connect"
    /\ connect_request' = TRUE
    /\ server_conn' = set_server(server_conn, <<request.host, request.port>>)
    /\ LET resp == IF HasResponse THEN response.status_code ELSE 200
       IN \E d \in Delivery :
            IF d = "none"
            THEN /\ sent' = Append(sent, Sent(resp, "send_response", TRUE))
                 /\ UNCHANGED <<f, request, hooks>>
                 /\ IF is_ok(resp)
                    THEN /\ layers' = Append(layers, "next_layer")
                         /\ pc' = "regular_layer"
                         /\ UNCHANGED <<ret, exc>>
                    ELSE /\ layers' = layers
                         /\ Return("False")
            ELSE /\ layers' = layers
                 /\ IF IsProtocolException(d) \/ IsNetlibException(d)
                    THEN RegularConnectExcept(
                            Append(sent, Sent(resp, "send_response", FALSE)),
                            Failed(f, "send_response", d))
                    ELSE RequestExcept(
                            d, Append(sent, Sent(resp, "send_response", FALSE)),
                            hooks, Failed(f, "send_response", d), request)
    /\ UNCHANGED <<mode, config, initial, response, upstream, exchanges,
                   vstate, nstate, tunnel>>

\* line 224: the layer the tunnel was handed to returns; line 235
RegularLayerReturns ==
    /\ pc = "regular_layer"
    /\ Return("False")
    /\ UNCHANGED <<mode, config, initial, server_conn, f, request, response,
                   hooks, sent, upstream, layers, exchanges, connect_request,
                   vstate, nstate, tunnel>>

\* line 224: the layer the tunnel was handed to raises
RegularLayerRaises ==
    /\ pc = "regular_layer"
    /\ \E e \in LayerErrors :
          IF IsProtocolException(e) \/ IsNetlibException(e)
          THEN RegularConnectExcept(sent, Failed(f, "layer", e))
          ELSE RequestExcept(e, sent, hooks, Failed(f, "layer", e), request)
    /\ UNCHANGED <<mode, config, initial, server_conn, response, upstream,
                   layers, exchanges, connect_request, vstate, nstate, tunnel>>

\* lines 293, 240: the http_connect hook supplied the response, nothing is fetched
UpstreamConnectHooked ==
    /\ pc = "upstream_connect"
    /\ HasResponse
    /\ request' = apply_proxy_auth(request)
    /\ pc' = "upstream_respond"
    /\ UNCHANGED <<mode, config, initial, server_conn, exc, f, response, hooks,
                   sent, upstream, layers, ret, exchanges, connect_request,
                   vstate, nstate, tunnel>>

\* lines 293, 240-250: the CONNECT is sent to the upstream proxy and its answer read
UpstreamConnectFetch ==
    /\ pc = "upstream_connect"
    /\ ~HasResponse
    /\ \E c \in {"ok", "fail"} :
        LET req == apply_proxy_auth(request)
            est == establish_server_connection(
                      mode, server_conn, req.host, req.port, req.scheme, c)
        IN /\ server_conn' = est.conn
           /\ IF est.raised # "none"
              THEN /\ RequestExcept(
                         est.raised, sent, hooks,
                         Failed(f, "establish_server_connection", est.raised), req)
                   /\ response' = response
                   /\ upstream' = [upstream EXCEPT !.establishes = @ + 1]
              ELSE \/ \E e \in UpstreamErrors :
                        /\ RequestExcept(e, sent, hooks,
                                         Failed(f, "upstream_request", e), req)
                        /\ response' = response
                        /\ upstream' = [upstream EXCEPT !.establishes = @ + 1]
                   \/ \E s \in ConnectStatuses :
                        /\ response' = [NoResponse EXCEPT !.status_code = s]
                        /\ request' = req
                        /\ upstream' = [upstream EXCEPT !.establishes = @ + 1,
                                                        !.body_reads = @ + 1]
                        /\ pc' = "upstream_respond"
                        /\ UNCHANGED <<exc, ret, f, hooks, sent>>
    /\ UNCHANGED <<mode, config, initial, layers, exchanges,
                   connect_request, vstate, nstate, tunnel>>

\* line 257: `username, _ = self.config.options.upstream_auth.split(':')`:
\* an unset upstream_auth has no split, and the pieces must be exactly two
upstream_auth_split ==
    IF config.upstream_auth = <<>> THEN "AttributeError"
    ELSE IF Len(Split(config.upstream_auth, ":")) # 2 THEN "ValueError"
    ELSE "none"

\* an UpstreamRespond that relays a 2xx answer only
UpstreamRespond_silent ==
    /\ pc = "upstream_respond"
    /\ \E d \in Delivery :
        LET s == Append(sent, Sent(response.status_code, "send_response", d = "none"))
        IN IF is_ok(response.status_code) /\ d # "none"
           THEN /\ RequestExcept(d, s, hooks, Failed(f, "send_response", d),
                                 request)
                /\ layers' = layers
           ELSE IF is_ok(response.status_code)
           THEN /\ layers' = layers \o <<"UpstreamConnectLayer", "next_layer">>
                /\ pc' = "upstream_layer"
                /\ sent' = s
                /\ UNCHANGED <<exc, ret, f, request, hooks>>
           ELSE /\ layers' = layers
                /\ IF response.status_code = 407 /\ upstream_auth_split # "none"
                   THEN RequestExcept(
                           upstream_auth_split, sent, hooks,
                           Failed(f, "upstream_auth", upstream_auth_split), request)
                   ELSE sent' = sent /\ Return("False") /\ UNCHANGED <<f, request, hooks>>
    /\ UNCHANGED <<mode, config, initial, server_conn, response, upstream,
                   exchanges, connect_request, vstate, nstate, tunnel>>

\* lines 251-261: the response goes to the client; 2xx hands off to an
\* UpstreamConnectLayer (whose __call__ calls the next layer), 407 is logged
UpstreamRespond ==
    /\ pc = "upstream_respond"
    /\ \E d \in Delivery :
        LET s == Append(sent, Sent(response.status_code, "send_response", d = "none"))
        IN IF d # "none"
           THEN /\ RequestExcept(d, s, hooks, Failed(f, "send_response", d),
                                 request)
                /\ layers' = layers
           ELSE IF is_ok(response.status_code)
           THEN /\ layers' = layers \o <<"UpstreamConnectLayer", "next_layer">>
                /\ pc' = "upstream_layer"
                /\ sent' = s
                /\ UNCHANGED <<exc, ret, f, request, hooks>>
           ELSE /\ layers' = layers
                /\ IF response.status_code = 407 /\ upstream_auth_split # "none"
                   THEN RequestExcept(
                           upstream_auth_split, s, hooks,
                           Failed(f, "upstream_auth", upstream_auth_split), request)
                   ELSE sent' = s /\ Return("False") /\ UNCHANGED <<f, request, hooks>>
    /\ UNCHANGED <<mode, config, initial, server_conn, response, upstream,
                   exchanges, connect_request, vstate, nstate, tunnel>>

\* lines 101-103, 254: the nested layers return, and `return layer()` gives None
UpstreamLayerReturns ==
    /\ pc = "upstream_layer"
    /\ Return("None")
    /\ UNCHANGED <<mode, config, initial, server_conn, f, request, response,
                   hooks, sent, upstream, layers, exchanges, connect_request,
                   vstate, nstate, tunnel>>

\* lines 101-103, 254: the nested layers raise
UpstreamLayerRaises ==
    /\ pc = "upstream_layer"
    /\ \E e \in LayerErrors :
          RequestExcept(e, sent, hooks, Failed(f, "layer", e), request)
    /\ UNCHANGED <<mode, config, initial, server_conn, response, upstream, layers,
                   exchanges, connect_request, vstate, nstate, tunnel>>

-----------------------------------------------------------------------------
(* Reading and validating the request: lines 300-324, 340-362 *)

\* lines 300-301: the first validation (skipped with relax_http_form_validation)
Validate ==
    /\ pc = "validate"
    /\ LET v == validate_request_form(mode, request)
       IN IF config.relax
          THEN /\ pc' = "requestheaders"
               /\ UNCHANGED <<upstream, exc, ret, f, request, hooks, sent>>
          ELSE /\ upstream' = [upstream EXCEPT !.validations = Append(@, v)]
               /\ IF v = "HttpException"
                  THEN RequestExcept(v, sent, hooks,
                                     Failed(f, "validate_request_form", v), request)
                  ELSE /\ pc' = "requestheaders"
                       /\ UNCHANGED <<exc, ret, f, request, hooks, sent>>
    /\ UNCHANGED <<mode, config, initial, server_conn, response, layers, exchanges,
                   connect_request, vstate, nstate, tunnel>>

\* lines 311-315: a request with Expect: 100-continue is answered with an
\* interim 100 response and loses the header; req and h are the request and the
\* hooks asked so far
ExpectContinue(req, h) ==
    IF req.expect
    THEN \E d \in Delivery :
           IF d = "none"
           THEN /\ sent' = Append(sent, Sent(100, "send_response", TRUE))
                /\ request' = [req EXCEPT !.expect = FALSE]
                /\ hooks' = h
                /\ pc' = "read_body"
                /\ UNCHANGED <<exc, ret, f>>
           ELSE RequestExcept(d, Append(sent, Sent(100, "send_response", FALSE)),
                              h, Failed(f, "send_response", d), req)
    ELSE /\ request' = req
         /\ hooks' = h
         /\ pc' = "read_body"
         /\ UNCHANGED <<exc, ret, f, sent>>

\* lines 302-315: requestheaders is asked (the hook may rewrite the request form
\* and declare the body streaming), proxy auth is applied, the form is validated
\* again, Expect: 100-continue is answered
RequestHeadersHook ==
    /\ pc = "requestheaders"
    /\ \E form \in Forms, stream \in BOOLEAN :
        LET hooked == [request EXCEPT !.first_line_format = form, !.stream = stream]
            req == IF mode = "upstream" THEN apply_proxy_auth(hooked) ELSE hooked
            v == validate_request_form(mode, req)
            h == Append(hooks, "requestheaders")
        IN IF config.relax
           THEN ExpectContinue(req, h) /\ UNCHANGED upstream
           ELSE /\ upstream' = [upstream EXCEPT !.validations = Append(@, v)]
                /\ IF v = "HttpException"
                   THEN RequestExcept(v, sent, h,
                                      Failed(f, "validate_request_form", v), req)
                   ELSE ExpectContinue(req, h)
    /\ UNCHANGED <<mode, config, initial, server_conn, response, layers, exchanges,
                   connect_request, vstate, nstate, tunnel>>

\* lines 317-322: reading the request body or trailers fails
ReadRequestBodyFails ==
    /\ pc = "read_body"
    /\ \E e \in ClientReadErrors,
          site \in {"read_request_body", "read_request_trailers"} :
          RequestExcept(e, sent, hooks, Failed(f, site, e), request)
    /\ UNCHANGED <<mode, config, initial, server_conn, response, upstream, layers,
                   exchanges, connect_request, vstate, nstate, tunnel>>

\* what a request hook may do to the target of the request it is asked about:
\* leave it, or, for a transparent-mode request, send it to HookTarget
HookRedirects(m) == IF m = "transparent" THEN {FALSE, TRUE} ELSE {FALSE}

\* a request hook asked about a request forced to the address the server
\* connection is bound to now
RequestHook_current_binding ==
    /\ pc = "read_body"
    /\ LET regular == IF mode = "regular" /\ request.first_line_format = "absolute"
                      THEN [request EXCEPT !.authority = FALSE]
                      ELSE request
           forced == IF mode = "transparent"
                     THEN [regular EXCEPT
                             !.host = server_conn.address[1],
                             !.port = server_conn.address[2],
                             !.scheme = IF server_conn.tls THEN "https" ELSE "http"]
                     ELSE regular
       IN /\ f' = [f EXCEPT !.at_request_hook =
                                 <<forced.host, forced.port, forced.scheme>>]
          /\ \E redirect \in HookRedirects(mode) :
                request' = IF redirect
                           THEN [forced EXCEPT !.host = HookTarget[1],
                                               !.port = HookTarget[2]]
                           ELSE forced
    /\ hooks' = Append(hooks, "request")
    /\ \E s \in {0} \cup HookStatuses :
          response' = [NoResponse EXCEPT !.status_code = s, !.by_hook = s # 0]
    /\ pc' = "forward"
    /\ UNCHANGED <<mode, config, initial, server_conn, exc, sent, upstream,
                   layers, ret, exchanges, connect_request, vstate, nstate, tunnel>>

\* lines 317-362: the body is read; regular mode drops the authority of an
\* absolute-form request; transparent mode forces host, port and scheme to the
\* captured destination; request is asked (the hook may put a response on the
\* flow, and may write another target into the request)
RequestHook ==
    /\ pc = "read_body"
    /\ LET regular == IF mode = "regular" /\ request.first_line_format = "absolute"
                      THEN [request EXCEPT !.authority = FALSE]
                      ELSE request
           forced == IF mode = "transparent"
                     THEN [regular EXCEPT
                             !.host = initial.address[1],
                             !.port = initial.address[2],
                             !.scheme = IF initial.tls THEN "https" ELSE "http"]
                     ELSE regular
       IN /\ f' = [f EXCEPT !.at_request_hook =
                                 <<forced.host, forced.port, forced.scheme>>]
          /\ \E redirect \in HookRedirects(mode) :
                request' = IF redirect
                           THEN [forced EXCEPT !.host = HookTarget[1],
                                               !.port = HookTarget[2]]
                           ELSE forced
    /\ hooks' = Append(hooks, "request")
    /\ \E s \in {0} \cup HookStatuses :
          response' = [NoResponse EXCEPT !.status_code = s, !.by_hook = s # 0]
    /\ pc' = "forward"
    /\ UNCHANGED <<mode, config, initial, server_conn, exc, sent, upstream,
                   layers, ret, exchanges, connect_request, vstate, nstate, tunnel>>

-----------------------------------------------------------------------------
(* Forwarding: lines 364-511 *)

\* a websocket_handshake hook asked of every request
WebsocketHooks_always(h) == Append(h, "websocket_handshake")

\* lines 365-369: a WebSocket opening handshake is tagged and its hook asked
WebsocketHooks(h) ==
    IF request.websocket THEN Append(h, "websocket_handshake") ELSE h

\* lines 365-371, 444-447: a hook supplied the response; responseheaders is
\* asked (the hook may ask for streaming)
ForwardHooked ==
    /\ pc = "forward"
    /\ HasResponse
    /\ f' = [f EXCEPT !.websocket = request.websocket]
    /\ hooks' = Append(WebsocketHooks(hooks), "responseheaders")
    /\ \E stream \in BOOLEAN : response' = [response EXCEPT !.stream = stream]
    /\ pc' = "response_hook"
    /\ UNCHANGED <<mode, config, initial, server_conn, exc, request,
                   sent, upstream, layers, ret, exchanges, connect_request,
                   vstate, nstate, tunnel>>

\* lines 365-376: no response yet, the server connection is established
ForwardEstablish ==
    /\ pc = "forward"
    /\ ~HasResponse
    /\ \E c \in {"ok", "fail"} :
        LET est == establish_server_connection(
                      mode, server_conn, request.host, request.port,
                      request.scheme, c)
            fl == [f EXCEPT !.websocket = request.websocket]
        IN /\ server_conn' = est.conn
           /\ upstream' = [upstream EXCEPT !.establishes = @ + 1]
           /\ IF est.raised # "none"
              THEN ForwardExcept(
                      est.raised, sent, WebsocketHooks(hooks),
                      Failed(fl, "establish_server_connection", est.raised))
              ELSE /\ pc' = "get_response"
                   /\ f' = fl
                   /\ hooks' = WebsocketHooks(hooks)
                   /\ UNCHANGED <<exc, ret, sent>>
    /\ UNCHANGED <<mode, config, initial, request, response,
                   layers, exchanges, connect_request, vstate, nstate, tunnel>>

\* the responses read_response_headers produces
Responses ==
    {r \in [status_code : Statuses, stream : {FALSE}, websocket : BOOLEAN,
            by_hook : {FALSE}] :
        r.websocket => r.status_code = 101}

\* a policy that reconnects for a streaming request too
retry_policy_always(e, stream) ==
    IF e = "Http2ProtocolException" THEN "raise" ELSE "reconnect"

\* a policy that never reconnects
retry_policy_never(e, stream) ==
    IF e = "Http2ProtocolException" THEN "raise" ELSE "timeout"

\* lines 412-427: what the except clause around the first get_response does with e
retry_policy(e, stream) ==
    IF e = "Http2ProtocolException" THEN "raise"
    ELSE IF stream THEN "timeout"
    ELSE "reconnect"

\* line 394: get_response sends the request and reads the response headers
GetResponse ==
    /\ pc = "get_response"
    /\ upstream' = [upstream EXCEPT !.attempts = @ + 1]
    /\ response' \in Responses
    /\ pc' = "responseheaders"
    /\ UNCHANGED <<mode, config, initial, server_conn, exc, f, request, hooks,
                   sent, layers, ret, exchanges, connect_request, vstate, nstate, tunnel>>

\* a first attempt whose except clause catches everything and reconnects
GetResponseFails_catch_all ==
    /\ pc = "get_response"
    /\ \E e \in UpstreamErrors, c \in {"ok", "fail"} :
        LET con == connect([server_conn EXCEPT !.connected = FALSE], c)
            tried == [upstream EXCEPT !.attempts = @ + 1,
                                      !.failures = Append(@, e),
                                      !.disconnects = @ + 1,
                                      !.reconnects = @ + 1]
        IN /\ upstream' = tried
           /\ server_conn' = con.conn
           /\ IF con.raised # "none"
              THEN ForwardExcept(con.raised, sent, hooks,
                                 Failed(f, "connect", con.raised))
              ELSE /\ pc' = "retry"
                   /\ f' = Failed(f, "get_response", e)
                   /\ UNCHANGED <<exc, ret, hooks, sent>>
    /\ UNCHANGED <<mode, config, initial, request, response, layers,
                   exchanges, connect_request, vstate, nstate, tunnel>>

\* lines 394-426: the first get_response raises e. A NetlibException is caught at
\* line 395: 408 for a streaming request, else disconnect and connect before
\* the retry; anything else goes to the except clause of line 497
GetResponseFails ==
    /\ pc = "get_response"
    /\ \E e \in UpstreamErrors :
        LET tried == [upstream EXCEPT !.attempts = @ + 1,
                                      !.failures = Append(@, e)]
            policy == retry_policy(e, request.stream)
            fl == Failed(f, "get_response", e)
        IN IF ~IsNetlibException(e)
           THEN /\ ForwardExcept(e, sent, hooks, fl)
                /\ upstream' = tried
                /\ server_conn' = server_conn
           ELSE IF policy = "raise"
           THEN /\ ForwardExcept("ProtocolException", sent, hooks, fl)
                /\ upstream' = tried
                /\ server_conn' = server_conn
           ELSE IF policy = "timeout"
           THEN /\ upstream' = tried
                /\ server_conn' = server_conn
                /\ \E d \in Delivery :
                    LET r == send_error_response(sent, 408, d)
                    IN IF r.raised # "none"
                       THEN ForwardExcept(
                               r.raised, r.sent, hooks,
                               Failed(fl, "send_error_response", r.raised))
                       ELSE /\ sent' = r.sent
                            /\ f' = [fl EXCEPT !.error = TRUE, !.live = FALSE]
                            /\ hooks' = Append(hooks, "error")
                            /\ Return("False")
           ELSE /\ upstream' = [tried EXCEPT !.disconnects = @ + 1,
                                             !.reconnects = @ + 1]
                /\ \E c \in {"ok", "fail"} :
                    LET con == connect([server_conn EXCEPT !.connected = FALSE], c)
                    IN /\ server_conn' = con.conn
                       /\ IF con.raised # "none"
                          THEN ForwardExcept(con.raised, sent, hooks,
                                             Failed(f, "connect", con.raised))
                          ELSE /\ pc' = "retry"
                               /\ f' = fl
                               /\ UNCHANGED <<exc, ret, hooks, sent>>
    /\ UNCHANGED <<mode, config, initial, request, response, layers, exchanges,
                   connect_request, vstate, nstate, tunnel>>

\* line 427: the second get_response returns
Retry ==
    /\ pc = "retry"
    /\ upstream' = [upstream EXCEPT !.attempts = @ + 1]
    /\ response' \in Responses
    /\ pc' = "responseheaders"
    /\ UNCHANGED <<mode, config, initial, server_conn, exc, f, request, hooks,
                   sent, layers, ret, exchanges, connect_request, vstate, nstate, tunnel>>

\* line 427: the second get_response raises, outside the inner try
RetryFails ==
    /\ pc = "retry"
    /\ \E e \in UpstreamErrors :
        /\ upstream' = [upstream EXCEPT !.attempts = @ + 1,
                                        !.failures = Append(@, e)]
        /\ ForwardExcept(e, sent, hooks, Failed(f, "get_response", e))
    /\ UNCHANGED <<mode, config, initial, server_conn, request, response, layers,
                   exchanges, connect_request, vstate, nstate, tunnel>>

\* lines 431-443: responseheaders is asked (the hook may ask for streaming);
\* the body of a response that is not streamed is read
ResponseHeadersHook ==
    /\ pc = "responseheaders"
    /\ hooks' = Append(hooks, "responseheaders")
    /\ \E stream \in BOOLEAN :
          /\ response' = [response EXCEPT !.stream = stream]
          /\ upstream' = IF stream THEN upstream
                         ELSE [upstream EXCEPT !.body_reads = @ + 1]
    /\ pc' = "response_hook"
    /\ UNCHANGED <<mode, config, initial, server_conn, exc, f, request, sent,
                   layers, ret, exchanges, connect_request, vstate, nstate, tunnel>>

\* lines 431-438: reading the body of a response that is not streamed fails
ResponseBodyFails ==
    /\ pc = "responseheaders"
    /\ \E e \in ResponseReadErrors :
          ForwardExcept(e, sent, Append(hooks, "responseheaders"),
                        Failed(f, "read_response_body", e))
    /\ upstream' = [upstream EXCEPT !.body_reads = @ + 1]
    /\ UNCHANGED <<mode, config, initial, server_conn, request, response,
                   layers, exchanges, connect_request, vstate, nstate, tunnel>>

\* line 449: reading the response trailers fails
ResponseTrailersFail ==
    /\ pc = "response_hook"
    /\ \E e \in ResponseReadErrors :
          ForwardExcept(e, sent, hooks, Failed(f, "read_response_trailers", e))
    /\ UNCHANGED <<mode, config, initial, server_conn, request, response,
                   upstream, layers, exchanges, connect_request, vstate, nstate, tunnel>>

\* lines 449-470: response is asked, then the response is delivered: in one
\* send_response, or, when it is streamed, its headers first and then the body as
\* read_response_body yields it
Deliver ==
    /\ pc = "response_hook"
    /\ upstream' = IF response.stream
                   THEN [upstream EXCEPT !.body_reads = @ + 1]
                   ELSE upstream
    /\ LET via == IF response.stream THEN "send_response_headers" ELSE "send_response"
           h == Append(hooks, "response")
       IN \/ \E d \in Delivery :
               LET s == Append(sent, Sent(response.status_code, via, d = "none"))
               IN IF d # "none"
                  THEN ForwardExcept(d, s, h, Failed(f, via, d))
                  ELSE /\ pc' = "fate"
                       /\ sent' = s
                       /\ hooks' = h
                       /\ UNCHANGED <<exc, ret, f>>
          \/ /\ response.stream
             /\ \E e \in ResponseReadErrors :
                  ForwardExcept(
                     e, Append(sent, Sent(response.status_code, via, FALSE)), h,
                     Failed(f, "read_response_body", e))
    /\ UNCHANGED <<mode, config, initial, server_conn, request, response,
                   layers, exchanges, connect_request, vstate, nstate, tunnel>>

\* lines 472-473, 507-509: the transmission layer says to close
CloseConnection ==
    /\ pc = "fate"
    /\ f' = [f EXCEPT !.live = FALSE, !.close = "close"]
    /\ Return("False")
    /\ UNCHANGED <<mode, config, initial, server_conn, request, response,
                   hooks, sent, upstream, layers, exchanges, connect_request,
                   vstate, nstate, tunnel>>

\* lines 472-476, 507-511: no close, no 101: return True
KeepAlive ==
    /\ pc = "fate"
    /\ response.status_code # 101
    /\ f' = [f EXCEPT !.live = FALSE, !.close = "keep"]
    /\ Return("True")
    /\ UNCHANGED <<mode, config, initial, server_conn, request, response,
                   hooks, sent, upstream, layers, exchanges, connect_request,
                   vstate, nstate, tunnel>>

\* a 101 that hands every handshake to the WebSocket layer, whatever the option
SwitchProtocols_ignoring_option ==
    /\ pc = "fate"
    /\ response.status_code = 101
    /\ LET is_websocket == request.websocket /\ response.websocket
       IN layers' = Append(layers, IF is_websocket
                                   THEN "WebSocketLayer" ELSE "next_layer")
    /\ f' = [f EXCEPT !.close = "keep"]
    /\ pc' = "switch_layer"
    /\ UNCHANGED <<mode, config, initial, server_conn, exc, request, response,
                   hooks, sent, upstream, ret, exchanges, connect_request,
                   vstate, nstate, tunnel>>

\* lines 476-494: 101 Switching Protocols hands the connection to another layer
SwitchProtocols ==
    /\ pc = "fate"
    /\ response.status_code = 101
    /\ LET is_websocket == request.websocket /\ response.websocket
       IN layers' = Append(layers, IF is_websocket /\ config.websocket
                                   THEN "WebSocketLayer" ELSE "next_layer")
    /\ f' = [f EXCEPT !.close = "keep"]
    /\ pc' = "switch_layer"
    /\ UNCHANGED <<mode, config, initial, server_conn, exc, request, response,
                   hooks, sent, upstream, ret, exchanges, connect_request,
                   vstate, nstate, tunnel>>

\* lines 494-495, 507-509: the layer returns
SwitchLayerReturns ==
    /\ pc = "switch_layer"
    /\ f' = [f EXCEPT !.live = FALSE]
    /\ Return("False")
    /\ UNCHANGED <<mode, config, initial, server_conn, request, response,
                   hooks, sent, upstream, layers, exchanges, connect_request,
                   vstate, nstate, tunnel>>

\* line 494: the layer raises
SwitchLayerRaises ==
    /\ pc = "switch_layer"
    /\ \E e \in LayerErrors :
          ForwardExcept(e, sent, hooks, Failed(f, "layer", e))
    /\ UNCHANGED <<mode, config, initial, server_conn, request, response,
                   upstream, layers, exchanges, connect_request, vstate, nstate, tunnel>>

-----------------------------------------------------------------------------
(* The connection *)

Next ==
    \/ Call
    \/ ReadRequestDisconnect
    \/ ReadRequestHeadersFails
    \/ ReadRequestHeaders
    \/ HttpConnectBodyFails
    \/ HttpConnect
    \/ UnexpectedConnect
    \/ RegularConnect
    \/ RegularLayerReturns
    \/ RegularLayerRaises
    \/ UpstreamConnectHooked
    \/ UpstreamConnectFetch
    \/ UpstreamRespond
    \/ UpstreamLayerReturns
    \/ UpstreamLayerRaises
    \/ Validate
    \/ RequestHeadersHook
    \/ ReadRequestBodyFails
    \/ RequestHook
    \/ ForwardHooked
    \/ ForwardEstablish
    \/ GetResponse
    \/ GetResponseFails
    \/ Retry
    \/ RetryFails
    \/ ResponseHeadersHook
    \/ ResponseBodyFails
    \/ ResponseTrailersFail
    \/ Deliver
    \/ CloseConnection
    \/ KeepAlive
    \/ SwitchProtocols
    \/ SwitchLayerReturns
    \/ SwitchLayerRaises

Spec == Init /\ [][Next]_vars

-----------------------------------------------------------------------------
(* validate_request_form and matches_no_proxy on drawn inputs *)

\* the connection left alone
Parked ==
    /\ mode = "regular"
    /\ config = [no_proxy |-> <<>>, upstream_auth |-> <<>>, relax |-> FALSE,
                 websocket |-> TRUE, socks |-> FALSE]
    /\ initial = [address |-> <<>>, tls |-> FALSE]
    /\ server_conn = [address |-> <<>>, connected |-> FALSE, tls |-> FALSE]
    /\ pc = "parked"
    /\ exc = "none"
    /\ f = [NewFlow EXCEPT !.live = FALSE]
    /\ request = NoRequest
    /\ response = NoResponse
    /\ hooks = <<>>
    /\ sent = <<>>
    /\ upstream = NoUpstream
    /\ layers = <<>>
    /\ ret = "pending"
    /\ exchanges = 0
    /\ connect_request = FALSE

InitValidate ==
    /\ Parked
    /\ nstate = "idle"
    /\ tunnel = "idle"
    /\ vstate \in [applied : {FALSE}, mode : HTTPMode,
                   request : [first_line_format : Forms, scheme : Schemes,
                              is_http2 : BOOLEAN],
                   result : {"none"}]

\* validate_request_form(mode, request) is called
ApplyValidate ==
    /\ ~vstate.applied
    /\ vstate' = [vstate EXCEPT
                    !.applied = TRUE,
                    !.result = validate_request_form(vstate.mode, vstate.request)]
    /\ UNCHANGED <<mainvars, nstate, tunnel>>

SpecValidate == InitValidate /\ [][ApplyValidate]_vars

\* well-formed no_proxy entries: host, or host:port
Entries == {S_example_com, S_internal_8080, S_internal_9090, S_com, S_internal}
EntryLists == UNION {[1..n -> Entries] : n \in 0..MaxEntries}
Hosts == {S_api_example_com, S_example_com, S_example_org, S_internal}
Ports == {80, 8080, 9090}

InitNoProxy ==
    /\ Parked
    /\ vstate = "idle"
    /\ tunnel = "idle"
    /\ nstate \in [applied : {FALSE}, no_proxy_list : EntryLists,
                   request : [host : Hosts, port : Ports],
                   result : {[no_proxy |-> FALSE, scanned |-> 0]}]

\* matches_no_proxy(request) is called
ApplyNoProxy ==
    /\ ~nstate.applied
    /\ nstate' = [nstate EXCEPT
                    !.applied = TRUE,
                    !.result = matches_no_proxy(nstate.no_proxy_list, nstate.request)]
    /\ UNCHANGED <<mainvars, vstate, tunnel>>

SpecNoProxy == InitNoProxy /\ [][ApplyNoProxy]_vars

-----------------------------------------------------------------------------
(* UpstreamConnectLayer: lines 70-132 *)

\* addresses a tunnel is pointed at
TunnelTargets == ReqAddrs \cup {<<S_example_com, 443>>}
\* addresses of upstream proxies
Proxies == {ProxyAddr, <<S_internal, 3128>>}
\* no CONNECT was sent
NoAnswer == [status_code |-> 0, raised |-> "none"]
\* what the upstream proxy does with a CONNECT: a status, or the exchange fails
TunnelAnswers ==
    {[status_code |-> st, raised |-> "none"] : st \in ConnectStatuses}
        \cup {[status_code |-> 0, raised |-> "TcpException"]}

\* lines 93-99: the layer made for connect_request over the connection
\* ctx.server_conn (`via`) the CONNECT was just answered on. requests: the
\* CONNECT targets sent by the layer; connects, disconnects: calls of
\* ctx.connect() and of disconnect()
NewTunnel(address) ==
    [connect_request |-> [host |-> address[1], port |-> address[2]],
     address |-> address,
     via |-> [address |-> ProxyAddr, connected |-> TRUE],
     requests |-> <<>>, connects |-> 0, disconnects |-> 0]

\* lines 105-113: the CONNECT is sent and its answer r read; anything but 200
\* is a ProtocolException
send_connect_request(t, r) ==
    [t |-> [t EXCEPT !.requests = Append(@, t.connect_request)],
     raised |-> IF r.raised # "none" THEN r.raised
                ELSE IF r.status_code # 200 THEN "ProtocolException"
                ELSE "none"]

\* a connect() that sends the CONNECT on a connected tunnel too
UpstreamConnectLayer_connect_eager(t, c, r) ==
    IF ~t.via.connected
    THEN LET k == connect(t.via, c)
             u == [t EXCEPT !.via = k.conn, !.connects = @ + 1]
         IN IF k.raised # "none"
            THEN [t |-> u, raised |-> k.raised]
            ELSE send_connect_request(u, r)
    ELSE send_connect_request(t, r)

\* lines 115-120: connect(): c is how ctx.connect() goes, r how the CONNECT is
\* answered
UpstreamConnectLayer_connect(t, c, r) ==
    IF ~t.via.connected
    THEN LET k == connect(t.via, c)
             u == [t EXCEPT !.via = k.conn, !.connects = @ + 1]
         IN IF k.raised # "none"
            THEN [t |-> u, raised |-> k.raised]
            ELSE send_connect_request(u, r)
    ELSE [t |-> t, raised |-> "none"]

\* lines 122-125: change_upstream_proxy_server(address)
change_upstream_proxy_server(t, address) ==
    IF address # t.via.address
    THEN [t EXCEPT !.via = set_server(t.via, address),
                   !.disconnects = IF t.via.connected THEN @ + 1 ELSE @]
    ELSE t

\* a set_server that keeps the connection when the address is the same
UpstreamConnectLayer_set_server_on_change(t, address) ==
    LET d == IF t.via.connected /\ address # t.address
             THEN [t EXCEPT !.via.connected = FALSE, !.disconnects = @ + 1]
             ELSE t
    IN [d EXCEPT !.connect_request = [host |-> address[1], port |-> address[2]],
                 !.address = address]

\* lines 127-132: set_server(address)
UpstreamConnectLayer_set_server(t, address) ==
    LET d == IF t.via.connected
             THEN [t EXCEPT !.via.connected = FALSE, !.disconnects = @ + 1]
             ELSE t
    IN [d EXCEPT !.connect_request = [host |-> address[1], port |-> address[2]],
                 !.address = address]

\* line 253: handle_upstream_connect makes the layer
InitTunnel ==
    /\ Parked
    /\ vstate = "idle"
    /\ nstate = "idle"
    /\ \E address \in TunnelTargets :
          tunnel = [now |-> NewTunnel(address), before |-> NewTunnel(address),
                    op |-> "init", arg |-> address, made |-> address,
                    c |-> "none", answer |-> NoAnswer, raised |-> "none",
                    ops |-> 0]

\* the call op(arg) took the layer to t and raised e; c and answer are how
\* ctx.connect() went and how the CONNECT was answered
TunnelCalled(op, arg, c, answer, t, e) ==
    /\ tunnel.ops < MaxTunnelOps
    /\ tunnel' = [tunnel EXCEPT !.now = t, !.before = tunnel.now, !.op = op,
                                !.arg = arg, !.c = c, !.answer = answer,
                                !.raised = e, !.ops = @ + 1]
    /\ UNCHANGED <<mainvars, vstate, nstate>>

\* a layer above calls set_server(address)
TunnelSetServer ==
    \E address \in TunnelTargets :
        TunnelCalled("set_server", address, "none", NoAnswer,
                     UpstreamConnectLayer_set_server(tunnel.now, address), "none")

\* a layer above calls connect()
TunnelConnect ==
    \E c \in {"ok", "fail"}, r \in TunnelAnswers :
        LET k == UpstreamConnectLayer_connect(tunnel.now, c, r)
        IN TunnelCalled("connect", tunnel.now.address, c, r, k.t, k.raised)

\* a layer above calls change_upstream_proxy_server(address)
TunnelChangeProxy ==
    \E address \in Proxies :
        TunnelCalled("change_upstream_proxy_server", address, "none", NoAnswer,
                     change_upstream_proxy_server(tunnel.now, address), "none")

NextTunnel == TunnelSetServer \/ TunnelConnect \/ TunnelChangeProxy

SpecTunnel == InitTunnel /\ [][NextTunnel]_vars

-----------------------------------------------------------------------------
(* Properties *)

\* the exchange is over: _process_flow returned or raised
Exited == exchanges > 0 /\ pc \in {"done", "raised", "loop"}

\* the last hook asked in the exchange
LastHook == IF hooks = <<>> THEN "none" ELSE hooks[Len(hooks)]

\* the responses of the exchange other than an interim 100 Continue
NotInterim(e) == e.code # 100
FinalSent == SelectSeq(sent, NotInterim)

\* how many times layer l was called in the exchange
Handoffs(l) == Cardinality({i \in 1..Len(layers) : layers[i] = l})

\* C1: once the exchange has exited, by whichever path (normal completion, 400,
\* 502 or 408, tunnel handoff, escalation), the flow's live marker is false.
C1_LiveFalseOnEveryExit == Exited => ~f.live

\* C2: validate_request_form fails exactly when (a) the form is absolute and the
\* scheme is not http or https, or (b) the form is outside the legal set of the
\* mode and the request is not HTTP/2 + transparent + absolute; otherwise it succeeds.
C2_ValidateFailsExactlyWhen ==
    vstate.applied =>
        LET m == vstate.mode
            form == vstate.request.first_line_format
            legal == IF m = "transparent" THEN {"relative"}
                     ELSE {"authority", "absolute"}
            a == form = "absolute" /\ vstate.request.scheme \notin {"http", "https"}
            tolerated == /\ vstate.request.is_http2
                         /\ m = "transparent"
                         /\ form = "absolute"
            b == form \notin legal /\ ~tolerated
        IN IF a \/ b
           THEN vstate.result = "HttpException"
           ELSE vstate.result = "ok"

\* C2 witness: the HTTP/2 + transparent + absolute exception was validated and passed
C2_Witness ==
    /\ vstate.applied
    /\ vstate.mode = "transparent"
    /\ vstate.request.is_http2
    /\ vstate.request.first_line_format = "absolute"
    /\ vstate.request.scheme = "https"
    /\ vstate.result = "ok"

ConnectAnswered200 ==
    /\ f.received = "authority"
    /\ sent # <<>>
    /\ sent[1] = Sent(200, "send_response", TRUE)

\* C4: a CONNECT answered with 200, in regular and in upstream mode, is handed
\* to a next layer exactly once, and once that layer is gone the loop of
\* __call__ does not run again: __call__ returns (or the layer's error leaves it).
C4_OneHandoffThenReturn ==
    ConnectAnswered200
        => /\ Handoffs("next_layer") = 1
           /\ pc \in {"regular_layer", "upstream_layer", "done", "raised"}
           /\ ret # "True"
           /\ (ret \in {"False", "None"} => pc = "done")

\* C4 witness: upstream mode, the UpstreamConnectLayer returned and so did __call__
C4_Witness ==
    /\ ConnectAnswered200
    /\ mode = "upstream"
    /\ layers = <<"UpstreamConnectLayer", "next_layer">>
    /\ ret = "None"
    /\ pc = "done"

\* C5: in upstream mode a CONNECT whose response (delivered to the client) has a
\* status outside 200..299 creates no UpstreamConnectLayer and runs no next
\* layer; the exchange ends without raising and the loop ends.
C5_NonOkConnectEndsCleanly ==
    (/\ mode = "upstream"
     /\ f.received = "authority"
     /\ HasResponse
     /\ ~is_ok(response.status_code)
     /\ sent # <<>>
     /\ sent[1] = Sent(response.status_code, "send_response", TRUE)
     /\ pc \in {"done", "raised"})
        => /\ layers = <<>>
           /\ pc = "done"
           /\ ret = "False"

\* entry addr of a no_proxy list matches the request: its host part is a suffix
\* of the request host, and it has no port or its port is the request's
EntryMatches(addr, req) ==
    \E k \in 1..(Len(addr) + 1) :
        /\ \A j \in 1..(k - 1) : addr[j] # ":"
        /\ k <= Len(addr) => addr[k] = ":"
        /\ \E d \in 0..Len(req.host) :
              /\ Len(req.host) - d = k - 1
              /\ \A j \in 1..(k - 1) : req.host[d + j] = addr[j]
        /\ k <= Len(addr) =>
              \E n \in Ports : n = req.port /\ SubSeq(addr, k + 1, Len(addr)) =
                  CASE n = 80 -> <<"8", "0">>
                    [] n = 8080 -> <<"8", "0", "8", "0">>
                    [] n = 9090 -> <<"9", "0", "9", "0">>

\* C6: matches_no_proxy returns true exactly when some entry's host part is a
\* suffix of the request host and the entry has no port or its port equals the
\* request port; scanning stops at the first entry that matches. With
\* ["example.com", "internal:8080"]: api.example.com matches, internal:9090 does
\* not, internal:8080 does.
C6_NoProxyMatchesExactly ==
    nstate.applied =>
        LET l == nstate.no_proxy_list
            req == nstate.request
            matching == {i \in 1..Len(l) : EntryMatches(l[i], req)}
        IN /\ nstate.result.no_proxy <=> (matching # {})
           /\ matching # {} =>
                 /\ nstate.result.scanned \in matching
                 /\ \A i \in matching : nstate.result.scanned <= i
           /\ matching = {} => nstate.result.scanned = Len(l)
           /\ l = <<S_example_com, S_internal_8080>> =>
                 /\ req.host = S_api_example_com => nstate.result.no_proxy
                 /\ (req.host = S_internal /\ req.port = 9090)
                       => ~nstate.result.no_proxy
                 /\ (req.host = S_internal /\ req.port = 8080)
                       => nstate.result.no_proxy

\* C6 witness: the list of the example, where the second entry matched on its port
C6_Witness ==
    /\ nstate.applied
    /\ nstate.no_proxy_list = <<S_example_com, S_internal_8080>>
    /\ nstate.request = [host |-> S_internal, port |-> 8080]
    /\ nstate.result = [no_proxy |-> TRUE, scanned |-> 2]

\* the first get_response of the exchange met a NetlibException
FirstAttemptNetworkError ==
    /\ upstream.failures # <<>>
    /\ IsNetlibException(upstream.failures[1])

\* C7: a streaming request that meets a network error on the first upstream
\* send/read is not retried: no disconnect, no reconnect, no second attempt; a
\* 408 goes out through send_error_response, the flow records the error, the
\* error hook is asked and the exchange ends.
C7_StreamingNoRetry408 ==
    (request.stream /\ FirstAttemptNetworkError)
        => /\ upstream.disconnects = 0
           /\ upstream.reconnects = 0
           /\ upstream.attempts = 1
           /\ Len(FinalSent) = 1
           /\ FinalSent[1].code = 408
           /\ FinalSent[1].via = "send_error_response"
           /\ f.error
           /\ LastHook = "error"
           /\ ret = "False"
           /\ pc = "done"

\* C7 witness: a streaming request timed out with 408
C7_Witness ==
    /\ request.stream
    /\ upstream.failures = <<"TcpException">>
    /\ sent = <<Sent(408, "send_error_response", TRUE)>>
    /\ LastHook = "error"
    /\ pc = "done"

\* C8 as claimed: a non-streaming request that meets a network error is
\* disconnected, reconnected and retried once, and a second failure on the retry
\* leaves __call__ as a fatal error.
C8_SecondFailureFatal ==
    (~request.stream /\ FirstAttemptNetworkError)
        => /\ upstream.disconnects = 1
           /\ upstream.reconnects = 1
           /\ upstream.attempts <= 2
           /\ (Len(upstream.failures) = 2 => pc = "raised")

\* C8: a non-streaming request that meets a network error on the first upstream
\* send/read is disconnected and reconnected once and, when the reconnect
\* succeeds, retried once, never more; a retry that fails as well is not
\* escalated: no response exists yet, so a 502 goes out through
\* send_error_response, the error hook is asked and the exchange returns False.
C8_OneRetryThen502 ==
    (~request.stream /\ FirstAttemptNetworkError)
        => /\ upstream.disconnects = 1
           /\ upstream.reconnects = 1
           /\ upstream.attempts <= 2
           /\ Len(upstream.failures) <= 2
           /\ (pc \in {"retry", "responseheaders", "response_hook", "fate",
                       "switch_layer"} => server_conn.connected)
           /\ (pc \in {"responseheaders", "response_hook", "fate", "switch_layer"}
                  => upstream.attempts = 2)
           /\ (Len(upstream.failures) = 2 =>
                 /\ upstream.attempts = 2
                 /\ pc = "done"
                 /\ ret = "False"
                 /\ Len(FinalSent) = 1
                 /\ FinalSent[1].code = 502
                 /\ FinalSent[1].via = "send_error_response"
                 /\ f.error
                 /\ LastHook = "error"
                 /\ ~f.live)

\* C8 witness: the retry failed too and was answered with 502
C8_Witness ==
    /\ ~request.stream
    /\ upstream.failures = <<"TcpException", "TcpException">>
    /\ upstream.disconnects = 1
    /\ upstream.reconnects = 1
    /\ sent = <<Sent(502, "send_error_response", TRUE)>>
    /\ pc = "done"

\* an error response whose delivery failed
FailedErrorResponse(i) ==
    /\ sent[i].via = "send_error_response"
    /\ ~sent[i].ok

C10_Http2NeverRetried ==
    (upstream.failures # <<>> /\ upstream.failures[1] = "Http2ProtocolException")
        => /\ upstream.attempts = 1
           /\ upstream.failures = <<"Http2ProtocolException">>
           /\ upstream.disconnects = 0
           /\ upstream.reconnects = 0
           /\ Len(FinalSent) = 1
           /\ FinalSent[1].code = 502
           /\ FinalSent[1].via = "send_error_response"
           /\ f.error
           /\ LastHook = "error"
           /\ ret = "False"
           /\ pc = "done"

\* C10 witness: the HTTP/2 failure was answered with a delivered 502
C10_Witness ==
    /\ upstream.failures = <<"Http2ProtocolException">>
    /\ upstream.attempts = 1
    /\ sent = <<Sent(502, "send_error_response", TRUE)>>
    /\ LastHook = "error"
    /\ pc = "done"

\* reading or validating the client's request failed with a protocol-level error
ClientRequestFailure ==
    /\ f.failed # <<>>
    /\ f.failed[1] \in {"read_request_headers", "validate_request_form",
                        "read_request_body", "read_request_trailers"}
    /\ f.failed[2] = "HttpException"

\* what the except clause of lines 325-338 leaves behind
Answered400 ==
    /\ Len(FinalSent) = 1
    /\ FinalSent[1].code = 400
    /\ FinalSent[1].via = "send_error_response"
    /\ request = NoRequest
    /\ ~f.has_request
    /\ f.error
    /\ LastHook = "error"

\* C11 as claimed: a protocol-level failure while the request is read and
\* validated gives a 400, clears the request, records the error, asks the error
\* hook and ends that iteration only: the loop of __call__ goes on.
C11_IterationOnly ==
    ClientRequestFailure => Answered400 /\ pc = "loop" /\ ret = "True"

\* C11: a protocol-level failure while the request is read and validated
\* (header read, either validation, body read, trailer read) gives a 400 through
\* send_error_response, clears the request from the flow, records the error and
\* asks the error hook; the exchange returns False, which ends the loop of
\* __call__ too, and no exception leaves __call__.
C11_ClientFailure400 ==
    ClientRequestFailure
        => /\ Answered400
           /\ pc = "done"
           /\ ret = "False"
           /\ exc = "none"

\* C11 witness: the validation after the requestheaders hook failed
C11_Witness ==
    /\ f.failed = <<"validate_request_form", "HttpException">>
    /\ hooks = <<"requestheaders", "error">>
    /\ sent = <<Sent(400, "send_error_response", TRUE)>>
    /\ request = NoRequest
    /\ pc = "done"

\* the exchange got as far as the request hook: what follows is the forwarding part
InForward == \E i \in 1..Len(hooks) : hooks[i] = "request"

\* a protocol or network error was raised in the forwarding part
ForwardFailure ==
    /\ InForward
    /\ f.failed # <<>>
    /\ IsProtocolException(f.failed[2]) \/ IsNetlibException(f.failed[2])

\* the failure is a network error of the first get_response, which the except
\* clause of line 395 deals with (408, or reconnect and retry)
FirstAttemptHandled ==
    /\ f.failed[1] = "get_response"
    /\ IsNetlibException(f.failed[2])
    /\ Len(upstream.failures) = 1

\* the two outcomes of the except clause of lines 497-506
Answered502 ==
    /\ Len(FinalSent) = 1
    /\ FinalSent[1].code = 502
    /\ FinalSent[1].via = "send_error_response"
    /\ f.error
    /\ LastHook = "error"
    /\ pc = "done"
    /\ ret = "False"
    /\ exc = "none"
Escalated ==
    /\ \A i \in 1..Len(sent) : sent[i].via # "send_error_response"
    /\ ~f.error
    /\ LastHook # "error"
    /\ pc = "raised"
    /\ exc = "ProtocolException"

\* C12 as claimed: every protocol or network failure raised in the forwarding
\* part ends in a 502 with the error hook when the flow has no response, and is
\* re-raised as a fatal protocol error when it has one.
C12_EveryForwardFailure ==
    (ForwardFailure /\ Exited)
        => IF HasResponse THEN Escalated ELSE Answered502

\* C12: a protocol or network failure raised in the forwarding part, other than
\* a network error of the first upstream send/read (answered by the retry policy
\* with a 408 or a reconnect and retry), ends in a 502 through
\* send_error_response, the error recorded and the error hook asked, without
\* raising, when the flow has no response; when it has one, no error response is
\* sent and a ProtocolException leaves __call__.
C12_ForwardFailure502OrFatal ==
    (ForwardFailure /\ ~FirstAttemptHandled)
        => /\ IF HasResponse THEN Escalated ELSE Answered502
           /\ ~f.live

\* C12 witness: delivery of a response the flow already had failed, and the
\* failure was escalated
C12_Witness ==
    /\ InForward
    /\ f.failed = <<"send_response", "TcpException">>
    /\ HasResponse
    /\ sent = <<Sent(response.status_code, "send_response", FALSE)>>
    /\ pc = "raised"
    /\ exc = "ProtocolException"

\* contacting the upstream proxy for a CONNECT failed with a network or
\* protocol error
UpstreamConnectFailure ==
    /\ f.received = "authority"
    /\ mode = "upstream"
    /\ f.failed # <<>>
    /\ f.failed[1] \in {"establish_server_connection", "upstream_request"}
    /\ IsProtocolException(f.failed[2]) \/ IsNetlibException(f.failed[2])

\* C13: a failure before any response is visible to the client, here a network
\* or protocol failure while the upstream proxy is contacted for a CONNECT, is
\* turned into a synthesized error response and an error hook notification; it
\* does not leave the orchestrator with no response sent.
C13_EarlyFailureAnswered ==
    UpstreamConnectFailure
        => /\ \E i \in 1..Len(sent) : sent[i].via = "send_error_response"
           /\ LastHook = "error"
           /\ pc # "raised"

\* in upstream mode the response to the CONNECT was delivered to the client
UpstreamConnectAnswered ==
    /\ f.received = "authority"
    /\ mode = "upstream"
    /\ HasResponse
    /\ sent # <<>>
    /\ sent[1] = Sent(response.status_code, "send_response", TRUE)

\* C14 as claimed: in upstream mode a CONNECT answered by the upstream proxy with
\* anything but 200, 204 included, fails as a protocol error and builds no
\* nested tunnel context.
C14_Exactly200 ==
    (UpstreamConnectAnswered /\ ~response.by_hook /\ response.status_code # 200)
        => /\ Handoffs("UpstreamConnectLayer") = 0
           /\ pc = "raised"
           /\ IsProtocolException(exc)

\* C14: in upstream mode the response to the CONNECT builds the chained tunnel
\* (an UpstreamConnectLayer) exactly when its status is in 200..299, 204
\* included; any other status builds none, and is relayed to the client rather
\* than failing as a protocol error.
C14_TunnelIff2xx ==
    UpstreamConnectAnswered
        => LET status == response.status_code
               ok == 200 <= status /\ status <= 299
           IN /\ ok => /\ Handoffs("UpstreamConnectLayer") = 1
                       /\ layers[1] = "UpstreamConnectLayer"
              /\ ~ok => /\ layers = <<>>
                        /\ ~IsProtocolException(exc)

\* C14 witness: the upstream proxy answered 204 and the tunnel was built
C14_Witness ==
    /\ UpstreamConnectAnswered
    /\ ~response.by_hook
    /\ response.status_code = 204
    /\ layers = <<"UpstreamConnectLayer", "next_layer">>
    /\ pc = "upstream_layer"

\* C15 as claimed: an upstream 407 to a CONNECT ends the exchange with no
\* handoff and without any response delivered to the client.
C15_NothingDelivered ==
    (/\ f.received = "authority"
     /\ mode = "upstream"
     /\ response.status_code = 407
     /\ ~response.by_hook
     /\ pc \in {"done", "raised"})
        => /\ layers = <<>>
           /\ \A i \in 1..Len(sent) : ~sent[i].ok

\* C15: an upstream 407 to a CONNECT is relayed to the client by send_response
\* before its status is looked at; no handoff follows and the loop of __call__
\* does not go on.
C15_407Relayed ==
    (/\ f.received = "authority"
     /\ mode = "upstream"
     /\ response.status_code = 407
     /\ ~response.by_hook
     /\ pc \in {"done", "raised", "loop"})
        => /\ layers = <<>>
           /\ Len(sent) = 1
           /\ sent[1].code = 407
           /\ sent[1].via = "send_response"
           /\ pc # "loop"
           /\ (sent[1].ok /\ upstream_auth_split = "none"
                  => pc = "done" /\ ret = "False")

\* C15 witness: the 407 reached the client and the exchange returned False
C15_Witness ==
    /\ f.received = "authority"
    /\ mode = "upstream"
    /\ ~response.by_hook
    /\ sent = <<Sent(407, "send_response", TRUE)>>
    /\ layers = <<>>
    /\ pc = "done"
    /\ ret = "False"

\* a request that is no CONNECT got its response from the request hook
HookSuppliedResponse ==
    /\ f.received \notin {"none", "authority"}
    /\ response.by_hook

\* C16 as claimed: when the request hook supplies the response of a request that
\* is no CONNECT, no server connection is established and nothing is sent to or
\* read from upstream; responseheaders and response are asked in that order, and
\* the supplied response is what is delivered.
C16_NoUpstreamContact ==
    HookSuppliedResponse
        => /\ upstream.establishes = 0
           /\ upstream.attempts = 0
           /\ upstream.body_reads = 0
           /\ pc \in {"fate", "switch_layer"}
                 => /\ hooks = WebsocketHooks(<<"requestheaders", "request">>)
                                  \o <<"responseheaders", "response">>
                    /\ FinalSent[Len(FinalSent)].code = response.status_code

\* the five hooks of an exchange, in the order the exchange asks them
HookRank(name) ==
    CASE name = "requestheaders" -> 1
      [] name = "request" -> 2
      [] name = "websocket_handshake" -> 3
      [] name = "responseheaders" -> 4
      [] name = "response" -> 5
      [] OTHER -> 0

\* the response of the exchange given to the client
ResponseDeliveries ==
    {i \in 1..Len(sent) :
        /\ sent[i].via \in {"send_response", "send_response_headers"}
        /\ sent[i].code # 100}

\* C17: in an exchange that is no CONNECT the hooks are asked in the order
\* requestheaders, request, websocket_handshake (for a WebSocket opening
\* handshake only), responseheaders, response, each at most once; the request
\* goes upstream only after the request hook, and the response goes to the
\* client only after the response hook.
C17_HookOrder ==
    f.received \notin {"none", "authority"}
        => /\ \A i, j \in 1..Len(hooks) :
                 (i < j /\ HookRank(hooks[i]) > 0 /\ HookRank(hooks[j]) > 0)
                     => HookRank(hooks[i]) < HookRank(hooks[j])
           /\ (\E i \in 1..Len(hooks) : hooks[i] = "websocket_handshake")
                 => request.websocket
           /\ (upstream.attempts > 0 \/ upstream.establishes > 0)
                 => \E i \in 1..Len(hooks) : hooks[i] = "request"
           /\ ResponseDeliveries # {}
                 => \E i \in 1..Len(hooks) : hooks[i] = "response"
           /\ pc \in {"fate", "switch_layer"}
                 => hooks = <<"requestheaders", "request">>
                               \o (IF request.websocket
                                   THEN <<"websocket_handshake">> ELSE <<>>)
                               \o <<"responseheaders", "response">>

\* C17 witness: a WebSocket handshake went upstream and its response was
\* delivered after all five hooks; so was a plain request after four
C17_Witness ==
    /\ f.received \notin {"none", "authority"}
    /\ pc = "fate"
    /\ upstream.attempts > 0
    /\ ResponseDeliveries # {}
    /\ request.websocket
    /\ hooks = <<"requestheaders", "request", "websocket_handshake",
                 "responseheaders", "response">>

\* C18: once the response is delivered, a close policy that says close ends
\* the loop with no handoff, for a 101 too; otherwise a 101 makes exactly one
\* handoff, to the WebSocket layer exactly when both handshakes are valid and
\* the option is enabled and to the next layer otherwise, and the loop never
\* resumes; any other status goes back to the loop.
C18_AfterDelivery ==
    /\ f.close = "close"
          => /\ layers = <<>>
             /\ pc = "done"
             /\ ret = "False"
    /\ (f.close = "keep" /\ response.status_code = 101)
          => /\ layers = <<IF request.websocket /\ response.websocket
                              /\ config.websocket
                           THEN "WebSocketLayer" ELSE "next_layer">>
             /\ pc \in {"switch_layer", "done", "raised"}
             /\ pc = "done" => ret = "False"
    /\ (f.close = "keep" /\ response.status_code # 101)
          => /\ layers = <<>>
             /\ pc = "loop"
             /\ ret = "True"
    /\ f.close # "unasked"
          => /\ ResponseDeliveries # {}
             /\ sent[Len(sent)].ok

\* C18 witness: a delivered 101 answering a WebSocket handshake, the option
\* enabled, and the close policy said close: no handoff
C18_Witness ==
    /\ f.close = "close"
    /\ response.status_code = 101
    /\ request.websocket
    /\ response.websocket
    /\ config.websocket
    /\ layers = <<>>
    /\ pc = "done"

\* C18 witness of the handoffs: a valid handshake with the option disabled went
\* to the next layer
C18_WitnessNextLayer ==
    /\ f.close = "keep"
    /\ response.status_code = 101
    /\ request.websocket
    /\ response.websocket
    /\ ~config.websocket
    /\ layers = <<"next_layer">>

\* C19 as claimed: a response that is not streamed is delivered in one shot
\* (headers, body, trailers); a streamed one has its headers sent, then its body
\* as it arrives, then its trailers.
C19_DeliveryFollowsStreaming ==
    \A i \in ResponseDeliveries :
        (f.received \notin {"none", "authority"} /\ sent[i].ok)
            => /\ sent[i].via = (IF response.stream THEN "send_response_headers"
                                 ELSE "send_response")
               /\ sent[i].calls = <<"send_response_headers", "send_response_body",
                                    "send_response_trailers">>

\* the address as set_server leaves it on the tunnel
Retargeted ==
    /\ tunnel.now.connect_request = [host |-> tunnel.arg[1], port |-> tunnel.arg[2]]
    /\ tunnel.now.address = tunnel.arg

\* C20 as claimed: set_server(address) retargets the tunnel and, when the
\* address changes, tears the upstream connection down and re-establishes the
\* tunnel to the new target; connect() sends the CONNECT only if the tunnel is
\* not connected and does nothing otherwise.
C20_SetServerReestablishes ==
    /\ tunnel.op = "set_server"
          => /\ Retargeted
             /\ (tunnel.arg # tunnel.before.address /\ tunnel.before.via.connected)
                   => /\ tunnel.now.disconnects = tunnel.before.disconnects + 1
                      /\ tunnel.now.via.connected
                      /\ tunnel.now.requests
                            = Append(tunnel.before.requests,
                                     tunnel.now.connect_request)
    /\ (tunnel.op = "connect" /\ tunnel.before.via.connected)
          => tunnel.now = tunnel.before

\* C20: set_server(address) retargets the tunnel (the CONNECT target and the
\* address of the tunnel handle become the new address) and tears the upstream
\* connection down whenever it is connected, the address changed or not; it
\* sends nothing and does not connect again. connect() does: when the upstream
\* connection is not connected it connects and sends the CONNECT to the current
\* target, failing unless the answer is exactly 200; when it is connected,
\* connect() does nothing.
C20_SetServerRetargets ==
    /\ tunnel.op = "set_server"
          => /\ Retargeted
             /\ ~tunnel.now.via.connected
             /\ tunnel.now.via.address = tunnel.before.via.address
             /\ tunnel.now.disconnects
                   = tunnel.before.disconnects
                        + (IF tunnel.before.via.connected THEN 1 ELSE 0)
             /\ tunnel.now.requests = tunnel.before.requests
             /\ tunnel.now.connects = tunnel.before.connects
    /\ (tunnel.op = "connect" /\ tunnel.before.via.connected)
          => /\ tunnel.now = tunnel.before
             /\ tunnel.raised = "none"
    /\ (tunnel.op = "connect" /\ ~tunnel.before.via.connected)
          => /\ tunnel.now.connects = tunnel.before.connects + 1
             /\ tunnel.now.connect_request = tunnel.before.connect_request
             /\ IF tunnel.c = "ok"
                THEN /\ tunnel.now.via.connected
                     /\ tunnel.now.requests
                           = Append(tunnel.before.requests,
                                    tunnel.before.connect_request)
                     /\ tunnel.raised = "none"
                           <=> tunnel.answer.status_code = 200
                     /\ tunnel.answer.status_code \in ConnectStatuses \ {200}
                           => tunnel.raised = "ProtocolException"
                ELSE /\ ~tunnel.now.via.connected
                     /\ tunnel.now.requests = tunnel.before.requests
                     /\ tunnel.raised # "none"

\* C20 witness: set_server was called on a connected tunnel with the address it
\* already had, and the connection was torn down all the same
C20_Witness ==
    /\ tunnel.op = "set_server"
    /\ tunnel.arg = tunnel.before.address
    /\ tunnel.before.via.connected
    /\ ~tunnel.now.via.connected
    /\ tunnel.now.disconnects = tunnel.before.disconnects + 1

\* C20 witness of connect(): after a set_server to another address, connect()
\* sent the CONNECT to the new target
C20_WitnessReconnect ==
    /\ tunnel.op = "connect"
    /\ ~tunnel.before.via.connected
    /\ tunnel.raised = "none"
    /\ tunnel.now.address # tunnel.made
    /\ tunnel.now.requests = <<[host |-> tunnel.now.address[1],
                                port |-> tunnel.now.address[2]]>>

\* host, port and scheme of the destination captured by __call__
CapturedDestination ==
    <<initial.address[1], initial.address[2],
      IF initial.tls THEN "https" ELSE "http">>

\* C21 as claimed: the destination and TLS flag of a transparent-mode
\* connection are captured once when the loop starts, and in every later
\* exchange on that connection the request hook is asked about a request whose
\* host, port and scheme are the captured destination.
C21_EveryLaterExchange ==
    [][/\ pc # "start" => initial' = initial
       /\ (initial'.address # <<>> /\ f'.at_request_hook # <<>>)
             => f'.at_request_hook = CapturedDestination']_vars

\* C21: in transparent mode the destination address and TLS flag are captured
\* once, when the loop starts, and never written again; in every exchange
\* processed while the mode is still transparent, when the request hook is
\* asked, host, port and scheme of the request are the captured destination
\* (https exactly when the captured TLS flag is set), whatever the client sent
\* and wherever earlier exchanges bound the server. Once a request has matched
\* no_proxy under a socks mode the mode is regular, and the request hook is
\* asked about the host, port and scheme the request came with.
C21_TransparentDestination ==
    [][/\ pc # "start" => initial' = initial
       /\ (pc = "start" /\ mode = "transparent")
             => initial' = [address |-> server_conn.address,
                            tls |-> server_conn.tls]
       /\ (mode' = "transparent" /\ f'.at_request_hook # <<>>)
             => f'.at_request_hook = CapturedDestination'
       /\ (mode' # "transparent" /\ f'.at_request_hook # <<>>
             /\ f.at_request_hook = <<>>)
             => f'.at_request_hook
                   = <<request.host, request.port, request.scheme>>]_vars

\* C21 witness: the second exchange of a transparent-mode connection whose
\* first exchange was redirected by the hook, so that the server is bound
\* elsewhere, and whose client named yet another host: the request hook is
\* asked about the captured destination
C21_Witness ==
    /\ mode = "transparent"
    /\ exchanges = 2
    /\ pc = "forward"
    /\ server_conn.address = HookTarget
    /\ server_conn.address # initial.address
    /\ f.at_request_hook = CapturedDestination
    /\ f.at_request_hook = <<OrigDst[1], OrigDst[2], "https">>
    /\ request.host = initial.address[1]

\* C22 as claimed: within one exchange, once a final response has been sent to
\* the client (a tunnel success response, a forwarded response or a synthesized
\* error), no further response is sent, also when the layer handed off to after
\* a successful regular-mode CONNECT fails.
C22_AtMostOneFinalResponse ==
    \A i, j \in 1..Len(FinalSent) :
        (i < j /\ FinalSent[i].ok) => FALSE

\* C23: the mode is written in one place only: a request read in upstream mode,
\* or with a socks mode, that matches no_proxy rebinds the server to its own
\* host and port and makes the mode regular; a regular mode stays regular and
\* upstream never comes back; a step in which no request matched leaves the
\* mode alone.
C23_ModeChangesOnce ==
    [][/\ mode' # mode
             => /\ exchanges' = exchanges + 1
                /\ f'.has_request
                /\ mode = "upstream" \/ config.socks
                /\ matches_no_proxy(config.no_proxy, request').no_proxy
                /\ mode' = "regular"
       /\ (exchanges' = exchanges + 1 /\ f'.has_request
             /\ (mode = "upstream" \/ config.socks)
             /\ matches_no_proxy(config.no_proxy, request').no_proxy)
             => /\ mode' = "regular"
                /\ server_conn'.address = <<request'.host, request'.port>>
                /\ ~server_conn'.connected
       /\ mode = "regular" => mode' = "regular"
       /\ mode' = "upstream" => mode = "upstream"
       /\ config' = config]_vars

\* C23 witness: the first request of an upstream-mode connection matched
\* no_proxy; the second does not match, and is processed in regular mode
C23_Witness ==
    /\ mode = "regular"
    /\ ~config.socks
    /\ config.no_proxy # <<>>
    /\ exchanges = 2
    /\ f.has_request
    /\ ~matches_no_proxy(config.no_proxy, request).no_proxy
    /\ pc = "forward"

\* C23 witness for a socks mode: a transparent-mode connection became regular
C23_WitnessSocks ==
    /\ mode = "regular"
    /\ config.socks
    /\ initial.address # <<>>
    /\ f.at_request_hook # <<>>
    /\ f.at_request_hook # CapturedDestination

====
